---- MODULE Spec2Model ----
(***************************************************************************)
(* Model of the tool-group registry of alibabacloud_rds_openapi_mcp_server *)
(* (toolsets/toolsets.py, toolsets/tools.py, toolsets/rds_custom.py), and  *)
(* of the read-loop of the command-line provider of the mydba component    *)
(* (provider/command_line.py).                                             *)
(*                                                                         *)
(* Python objects are modelled with an explicit heap: a _ToolInfo instance *)
(* is a reference <<func, n>> (the n-th instance constructed for func), so *)
(* that "the same record instance" and "a new record with equal fields"    *)
(* are different things.  A dict is modelled with its key insertion order  *)
(* where the code iterates over it.                                        *)
(***************************************************************************)
EXTENDS Integers, Sequences, FiniteSets, TLC

VARIABLES
    tools,      \* ToolsetManager._tools : dict func -> _ToolInfo, as the sequence of its items
    heap,       \* the _ToolInfo instances the registry refers to, by reference
    made,       \* per callable, the number of _ToolInfo instances constructed for it
    groups,     \* ToolsetManager.groups : dict group name -> list of _ToolInfo
    enabled,    \* ToolsetManager.enabled : set of group names
    hostCalls,  \* the calls FastMCP.tool(mcp, *args, **kwargs)(func) the host has received
    lastOp,     \* the last call made on the registry, with its inputs and outcome
    ret,        \* the value the last call returned
    cli         \* CommandLineProvider.run: where it stands, its request context and
                \* what its last step read, printed and handed on

vars == <<tools, heap, made, groups, enabled, hostCalls, lastOp, ret, cli>>

----------------------------------------------------------------------------
(* Bounds of the model *)

\* _ToolInfo instances constructed in one run
MaxRecords == 4
\* host registration calls received in one run
MaxHostCalls == 4
\* atoms of a selector string given to initialize_toolsets
MaxSelLen == 5
\* atoms of a line typed at the command-line prompt
MaxLineLen == 3
\* elements of a selector list given to initialize_toolsets
MaxListLen == 2

----------------------------------------------------------------------------
(* Values *)

\* Python's None as an optional argument: an optional value is the empty set
\* (None) or a singleton holding the value
NoneOpt == {}
Some(v) == {v}
ValueOf(opt) == CHOOSE v \in opt : TRUE

\* what dict.get returns for a missing key: no _ToolInfo instance
NoInfo == <<>>

\* the value of a call that returns nothing
NoValue == "None"

\* the callables the tools are made from
Funcs == {"describe_db_instances", "describe_db_instance_attribute", "custom_echo"}

\* the group names the callers use
GroupNames == {"default", "rds"}

\* registration parameters a caller may give (args tuple, kwargs dict as a
\* set of <<key, value>> pairs)
\* a call that takes no registration parameters
NoParams == [args |-> NoneOpt, kwargs |-> NoneOpt]

ParamsGiven ==
    {[args |-> NoneOpt, kwargs |-> NoneOpt],
     [args |-> Some(<<"title">>), kwargs |-> Some({<<"name", "n1">>})]}

----------------------------------------------------------------------------
(* dict and list helpers *)

\* dict.get(key) on the item sequence of _tools
tools_get(T, func) ==
    IF \E i \in 1..Len(T) : T[i].key = func
    THEN T[CHOOSE i \in 1..Len(T) : T[i].key = func].info
    ELSE NoInfo

\* _tools[func] = info as it would be if a known key were deleted first
\* (del self._tools[func]): the key moves to the end of the insertion order
tools_set_moves_last(T, func, info) ==
    Append(SelectSeq(T, LAMBDA item : item.key # func), [key |-> func, info |-> info])

\* _tools[func] = info : a known key keeps its place in the insertion order
tools_set(T, func, info) ==
    IF \E i \in 1..Len(T) : T[i].key = func
    THEN [i \in 1..Len(T) |-> IF T[i].key = func THEN [key |-> func, info |-> info] ELSE T[i]]
    ELSE Append(T, [key |-> func, info |-> info])

\* [i for i in self.groups[name] if i.func != func]
without_func(H, G, name, func) ==
    [G EXCEPT ![name] = SelectSeq(@, LAMBDA i : H[i].func # func)]

\* self.groups.setdefault(group, []).append(info)
setdefault_append(G, group, info) ==
    [g \in DOMAIN G \cup {group} |->
        IF g = group
        THEN Append(IF g \in DOMAIN G THEN G[g] ELSE <<>>, info)
        ELSE G[g]]

----------------------------------------------------------------------------
(* ToolsetManager: each method as a function of the manager's state        *)
(* M = [tools, heap, made, groups, enabled]                                *)

Manager ==
    [tools |-> tools, heap |-> heap, made |-> made, groups |-> groups, enabled |-> enabled]

\* ToolsetManager.__init__
NewManager ==
    [tools |-> <<>>, heap |-> [r \in {} |-> <<>>], made |-> [f \in Funcs |-> 0],
     groups |-> [g \in {} |-> <<>>], enabled |-> {}]

\* the instances _tools or a group list refers to; an instance nothing refers
\* to is reclaimed
Live(T, G) ==
    {T[i].info : i \in 1..Len(T)} \cup UNION {{G[g][i] : i \in 1..Len(G[g])} : g \in DOMAIN G}

\* _ToolInfo(func=func, args=args, kwargs=kwargs, group=group): the new
\* instance's reference
new_info(M, func) == <<func, M.made[func] + 1>>

\* add_tool as it would be without lines 41-44: a re-added callable's old
\* record stays in its group's list
add_tool_keeps_old(M, func, group, args, kwargs) ==
    LET a == IF args = NoneOpt THEN <<>> ELSE ValueOf(args)
        k == IF kwargs = NoneOpt THEN {} ELSE ValueOf(kwargs)
        info == new_info(M, func)
        T2 == tools_set(M.tools, func, info)
        G2 == setdefault_append(M.groups, group, info)
    IN  [tools   |-> T2,
         heap    |-> [r \in Live(T2, G2) |->
                        IF r = info
                        THEN [func |-> func, args |-> a, kwargs |-> k, group |-> group]
                        ELSE M.heap[r]],
         made    |-> [M.made EXCEPT ![func] = @ + 1],
         groups  |-> G2,
         enabled |-> M.enabled]

\* ToolsetManager.add_tool
add_tool(M, func, group, args, kwargs) ==
    LET a == IF args = NoneOpt THEN <<>> ELSE ValueOf(args)
        k == IF kwargs = NoneOpt THEN {} ELSE ValueOf(kwargs)
        old == tools_get(M.tools, func)
        G1 == IF old # NoInfo /\ M.heap[old].group \in DOMAIN M.groups
              THEN without_func(M.heap, M.groups, M.heap[old].group, func)
              ELSE M.groups
        info == new_info(M, func)
        T2 == tools_set(M.tools, func, info)
        G2 == setdefault_append(G1, group, info)
    IN  [tools   |-> T2,
         heap    |-> [r \in Live(T2, G2) |->
                        IF r = info
                        THEN [func |-> func, args |-> a, kwargs |-> k, group |-> group]
                        ELSE M.heap[r]],
         made    |-> [M.made EXCEPT ![func] = @ + 1],
         groups  |-> G2,
         enabled |-> M.enabled]

\* set_group as it would be without lines 59-61: the record is appended to
\* the target group's list and stays in the old group's list
set_group_keeps_old(M, func, group) ==
    LET info == tools_get(M.tools, func) IN
    IF info = NoInfo THEN add_tool(M, func, group, NoneOpt, NoneOpt)
    ELSE IF M.heap[info].group = group THEN M
    ELSE [tools   |-> M.tools,
          heap    |-> [M.heap EXCEPT ![info].group = group],
          made    |-> M.made,
          groups  |-> setdefault_append(M.groups, group, info),
          enabled |-> M.enabled]

\* set_group as it would be if a move built the record anew with default
\* parameters instead of setting the group field of line 62
set_group_resets_params(M, func, group) ==
    LET info == tools_get(M.tools, func) IN
    IF info = NoInfo THEN add_tool(M, func, group, NoneOpt, NoneOpt)
    ELSE IF M.heap[info].group = group THEN M
    ELSE LET old_group == M.heap[info].group
             G1 == IF old_group \in DOMAIN M.groups
                   THEN without_func(M.heap, M.groups, old_group, func)
                   ELSE M.groups
         IN  [tools   |-> M.tools,
              heap    |-> [M.heap EXCEPT ![info] =
                              [func |-> func, args |-> <<>>, kwargs |-> {}, group |-> group]],
              made    |-> M.made,
              groups  |-> setdefault_append(G1, group, info),
              enabled |-> M.enabled]

\* set_group as it would be without the early return of lines 56-57: a tool
\* already in the target group is taken out of its list and appended again
set_group_always_moves(M, func, group) ==
    LET info == tools_get(M.tools, func) IN
    IF info = NoInfo THEN add_tool(M, func, group, NoneOpt, NoneOpt)
    ELSE LET old_group == M.heap[info].group
             G1 == IF old_group \in DOMAIN M.groups
                   THEN without_func(M.heap, M.groups, old_group, func)
                   ELSE M.groups
         IN  [tools   |-> M.tools,
              heap    |-> [M.heap EXCEPT ![info].group = group],
              made    |-> M.made,
              groups  |-> setdefault_append(G1, group, info),
              enabled |-> M.enabled]

\* set_group as it would be if line 54 dropped the group argument: an
\* unknown callable is added to add_tool's default group
set_group_unknown_to_default(M, func, group) ==
    LET info == tools_get(M.tools, func) IN
    IF info = NoInfo THEN add_tool(M, func, "default", NoneOpt, NoneOpt)
    ELSE IF M.heap[info].group = group THEN M
    ELSE LET old_group == M.heap[info].group
             G1 == IF old_group \in DOMAIN M.groups
                   THEN without_func(M.heap, M.groups, old_group, func)
                   ELSE M.groups
         IN  [tools   |-> M.tools,
              heap    |-> [M.heap EXCEPT ![info].group = group],
              made    |-> M.made,
              groups  |-> setdefault_append(G1, group, info),
              enabled |-> M.enabled]

\* set_group as it would be if line 63 put the record at the head of the
\* target group's list (insert(0, info) instead of append(info))
set_group_inserts_first(M, func, group) ==
    LET info == tools_get(M.tools, func) IN
    IF info = NoInfo THEN add_tool(M, func, group, NoneOpt, NoneOpt)
    ELSE IF M.heap[info].group = group THEN M
    ELSE LET old_group == M.heap[info].group
             G1 == IF old_group \in DOMAIN M.groups
                   THEN without_func(M.heap, M.groups, old_group, func)
                   ELSE M.groups
         IN  [tools   |-> M.tools,
              heap    |-> [M.heap EXCEPT ![info].group = group],
              made    |-> M.made,
              groups  |-> [g \in DOMAIN G1 \cup {group} |->
                              IF g = group
                              THEN <<info>> \o (IF g \in DOMAIN G1 THEN G1[g] ELSE <<>>)
                              ELSE G1[g]],
              enabled |-> M.enabled]

\* ToolsetManager.set_group
set_group(M, func, group) ==
    LET info == tools_get(M.tools, func) IN
    IF info = NoInfo THEN add_tool(M, func, group, NoneOpt, NoneOpt)
    ELSE IF M.heap[info].group = group THEN M
    ELSE LET old_group == M.heap[info].group
             G1 == IF old_group \in DOMAIN M.groups
                   THEN without_func(M.heap, M.groups, old_group, func)
                   ELSE M.groups
         IN  [tools   |-> M.tools,
              heap    |-> [M.heap EXCEPT ![info].group = group],
              made    |-> M.made,
              groups  |-> setdefault_append(G1, group, info),
              enabled |-> M.enabled]

\* ToolsetManager.enable(*groups), groups a tuple of names
RECURSIVE enable(_, _)
enable(M, gs) ==
    IF gs = <<>> THEN M
    ELSE enable([M EXCEPT !.enabled = @ \cup {Head(gs)}], Tail(gs))

\* get_registered_groups as it would be if it listed the groups that hold a
\* tool instead of the keys of self.groups
get_nonempty_groups(M) == {g \in DOMAIN M.groups : M.groups[g] # <<>>}

\* ToolsetManager.get_registered_groups (the list's order is the dict's key
\* order, which no caller relies on: the result is modelled as a set)
get_registered_groups(M) == DOMAIN M.groups

\* ToolsetManager.get_enabled_groups (list(set): the order is arbitrary)
get_enabled_groups(M) == M.enabled

\* get_enabled_tools as it would be if line 81 went over self.groups
get_all_tools(M) ==
    [name \in DOMAIN M.groups |->
        [i \in 1..Len(M.groups[name]) |-> M.heap[M.groups[name][i]].func]]

\* ToolsetManager.get_enabled_tools
get_enabled_tools(M) ==
    [name \in M.enabled |->
        LET l == IF name \in DOMAIN M.groups THEN M.groups[name] ELSE <<>>
        IN  [i \in 1..Len(l) |-> M.heap[l[i]].func]]

\* one host call FastMCP.tool(mcp, *info.args, **info.kwargs)(info.func);
\* ok is FALSE when the host raised
HostCall(rec, ok) ==
    [func |-> rec.func, args |-> rec.args, kwargs |-> rec.kwargs, ok |-> ok]

\* the loop of ToolsetManager.register_enabled from the i-th item of _tools,
\* n host calls made so far in this activation; the host raises on call
\* number failAt (0: the host never raises)
RECURSIVE register_loop(_, _, _, _, _)
register_loop(M, i, n, calls, failAt) ==
    IF i > Len(M.tools) THEN [calls |-> calls, raised |-> FALSE]
    ELSE LET rec == M.heap[M.tools[i].info] IN
         IF rec.group \in M.enabled
         THEN IF n + 1 = failAt
              THEN [calls |-> Append(calls, HostCall(rec, FALSE)), raised |-> TRUE]
              ELSE register_loop(M, i + 1, n + 1, Append(calls, HostCall(rec, TRUE)), failAt)
         ELSE register_loop(M, i + 1, n, calls, failAt)

\* register_enabled as it would be without the test of line 88: every tool
\* is handed to the host
RECURSIVE register_all_loop(_, _, _, _, _)
register_all_loop(M, i, n, calls, failAt) ==
    IF i > Len(M.tools) THEN [calls |-> calls, raised |-> FALSE]
    ELSE LET rec == M.heap[M.tools[i].info] IN
         IF n + 1 = failAt
         THEN [calls |-> Append(calls, HostCall(rec, FALSE)), raised |-> TRUE]
         ELSE register_all_loop(M, i + 1, n + 1, Append(calls, HostCall(rec, TRUE)), failAt)

register_all(M, calls, failAt) == register_all_loop(M, 1, 0, calls, failAt)

\* register_enabled as it would be with the host call wrapped in
\* try/except: a raising host call is skipped and the loop goes on
RECURSIVE register_suppress_loop(_, _, _, _, _)
register_suppress_loop(M, i, n, calls, failAt) ==
    IF i > Len(M.tools) THEN [calls |-> calls, raised |-> FALSE]
    ELSE LET rec == M.heap[M.tools[i].info] IN
         IF rec.group \in M.enabled
         THEN register_suppress_loop(M, i + 1, n + 1,
                                     Append(calls, HostCall(rec, n + 1 # failAt)), failAt)
         ELSE register_suppress_loop(M, i + 1, n, calls, failAt)

register_suppressing(M, calls, failAt) == register_suppress_loop(M, 1, 0, calls, failAt)

\* register_enabled as it would be if it went over the group lists of the
\* enabled groups (for name in self.groups: for info in self.groups[name])
\* instead of self._tools.values()
register_per_group(M, calls, failAt) ==
    LET RECURSIVE listed(_)
        listed(names) ==
            IF names = {} THEN <<>>
            ELSE LET g == CHOOSE x \in names : TRUE
                 IN  (IF g \in M.enabled THEN M.groups[g] ELSE <<>>) \o listed(names \ {g})
        all == listed(DOMAIN M.groups)
        n == IF failAt = 0 THEN Len(all) ELSE failAt
    IN  [calls  |-> calls \o [i \in 1..n |-> HostCall(M.heap[all[i]], i # failAt)],
         raised |-> failAt # 0]

\* register_enabled as it would be if it skipped a tool the host has
\* already received (a registry that remembers what it registered)
RECURSIVE register_once_loop(_, _, _, _, _)
register_once_loop(M, i, n, calls, failAt) ==
    IF i > Len(M.tools) THEN [calls |-> calls, raised |-> FALSE]
    ELSE LET rec == M.heap[M.tools[i].info] IN
         IF rec.group \in M.enabled
            /\ ~\E k \in 1..Len(calls) : calls[k].func = rec.func /\ calls[k].ok
         THEN IF n + 1 = failAt
              THEN [calls |-> Append(calls, HostCall(rec, FALSE)), raised |-> TRUE]
              ELSE register_once_loop(M, i + 1, n + 1, Append(calls, HostCall(rec, TRUE)), failAt)
         ELSE register_once_loop(M, i + 1, n, calls, failAt)

register_once(M, calls, failAt) == register_once_loop(M, 1, 0, calls, failAt)

\* ToolsetManager.register_enabled
register_enabled(M, calls, failAt) == register_loop(M, 1, 0, calls, failAt)

\* the number of tools register_enabled would hand to the host
EnabledCount(M) ==
    Cardinality({i \in 1..Len(M.tools) : M.heap[M.tools[i].info].group \in M.enabled})

----------------------------------------------------------------------------
(* ToolsetMCP *)

\* the decorator as it would be if it also called FastMCP.tool, the method
\* it overrides
tool_registers_now(M, calls, func, group, dargs, dkwargs) ==
    [M     |-> add_tool(M, func, group, Some(dargs), Some(dkwargs)),
     calls |-> Append(calls, [func |-> func, args |-> dargs, kwargs |-> dkwargs, ok |-> TRUE]),
     ret   |-> func]

\* ToolsetMCP.tool(*dargs, group=group, **dkwargs)(func): the decorator hands
\* the callable to the manager, makes no host call and returns the callable
tool(M, calls, func, group, dargs, dkwargs) ==
    [M     |-> add_tool(M, func, group, Some(dargs), Some(dkwargs)),
     calls |-> calls,
     ret   |-> func]

\* ToolsetMCP.register_enabled_tools
register_enabled_tools(M, calls, failAt) == register_enabled(M, calls, failAt)

----------------------------------------------------------------------------
(* Strings. A str is the sequence of its atoms: the separator ",", a       *)
(* whitespace character, or a run of other characters (a name).            *)

Comma == ","
Whitespace == {" "}
Atoms == {Comma, " ", "rds", "custom"}

\* the str as one value
RECURSIVE text(_)
text(s) == IF s = <<>> THEN "" ELSE Head(s) \o text(Tail(s))

\* str.split(",")
RECURSIVE split(_)
split(s) ==
    IF \E i \in 1..Len(s) : s[i] = Comma
    THEN LET i == CHOOSE k \in 1..Len(s) : s[k] = Comma /\ \A m \in 1..(k - 1) : s[m] # Comma
         IN  <<SubSeq(s, 1, i - 1)>> \o split(SubSeq(s, i + 1, Len(s)))
    ELSE <<s>>

\* str.strip()
RECURSIVE strip(_)
strip(s) ==
    IF s = <<>> THEN s
    ELSE IF Head(s) \in Whitespace THEN strip(Tail(s))
    ELSE IF s[Len(s)] \in Whitespace THEN strip(SubSeq(s, 1, Len(s) - 1))
    ELSE s

----------------------------------------------------------------------------
(* Startup: tools.load_groups and toolsets.initialize_toolsets             *)

\* the selector given to initialize_toolsets: None, a str or a list of names
NoSelector == [kind |-> "none", val |-> <<>>]
StrSelector(s) == [kind |-> "str", val |-> s]
ListSelector(l) == [kind |-> "list", val |-> l]

\* the server module (not among the sources): its tools are the callables it
\* declared with the decorator, and toolset_manager is mcp.manager
ServerFuncs == {"describe_db_instances", "describe_db_instance_attribute"}
hasattr_server(M, name) == tools_get(M.tools, name) # NoInfo

\* from . import rds_custom: the first import runs @mcp.tool() on custom_echo
import_rds_custom(M) ==
    IF tools_get(M.tools, "custom_echo") = NoInfo
    THEN tool(M, <<>>, "custom_echo", "default", <<>>, {}).M
    ELSE M

\* tools.load_groups
load_groups(M) ==
    LET M1 == IF hasattr_server(M, "describe_db_instances")
              THEN set_group(M, "describe_db_instances", "rds") ELSE M
        M2 == IF hasattr_server(M1, "describe_db_instance_attribute")
              THEN set_group(M1, "describe_db_instance_attribute", "rds") ELSE M1
    IN  set_group(import_rds_custom(M2), "custom_echo", "custom")

\* the list `enabled` initialize_toolsets computes from its argument
RECURSIVE stripped_tokens(_)
stripped_tokens(parts) ==
    IF parts = <<>> THEN <<>>
    ELSE IF strip(Head(parts)) # <<>>
         THEN <<text(strip(Head(parts)))>> \o stripped_tokens(Tail(parts))
         ELSE stripped_tokens(Tail(parts))

\* the list as it would be with line 125 testing and keeping g instead of
\* g.strip()
RECURSIVE unstripped_tokens(_)
unstripped_tokens(parts) ==
    IF parts = <<>> THEN <<>>
    ELSE IF Head(parts) # <<>>
         THEN <<text(Head(parts))>> \o unstripped_tokens(Tail(parts))
         ELSE unstripped_tokens(Tail(parts))

selected_unstripped(toolsets) ==
    IF toolsets.kind = "none" THEN <<"default">>
    ELSE IF toolsets.kind = "str"
         THEN IF unstripped_tokens(split(toolsets.val)) # <<>>
              THEN unstripped_tokens(split(toolsets.val)) ELSE <<"default">>
    ELSE IF toolsets.val # <<>> THEN toolsets.val ELSE <<"default">>

selected(toolsets) ==
    IF toolsets.kind = "none" THEN <<"default">>
    ELSE IF toolsets.kind = "str"
         THEN IF stripped_tokens(split(toolsets.val)) # <<>>
              THEN stripped_tokens(split(toolsets.val)) ELSE <<"default">>
    ELSE IF toolsets.val # <<>> THEN toolsets.val ELSE <<"default">>

\* the calls one run of initialize_toolsets makes on the manager and the
\* host, in the order it makes them: a call is [ev, name], name the callable
\* of a set_group or a host registration, the group of an enable
Event(ev, name) == [ev |-> ev, name |-> name]

\* the set_group calls of tools.load_groups, in the order of lines 11-19
load_groups_events(M) ==
    LET M1 == IF hasattr_server(M, "describe_db_instances")
              THEN set_group(M, "describe_db_instances", "rds") ELSE M
    IN  (IF hasattr_server(M, "describe_db_instances")
         THEN <<Event("set_group", "describe_db_instances")>> ELSE <<>>)
        \o (IF hasattr_server(M1, "describe_db_instance_attribute")
            THEN <<Event("set_group", "describe_db_instance_attribute")>> ELSE <<>>)
        \o <<Event("set_group", "custom_echo")>>

\* the self.enabled.add(g) of enable(*gs), in the order of the loop
enable_events(gs) == [i \in 1..Len(gs) |-> Event("enable", gs[i])]

\* the host calls of an activation that found `calls` and left `after`
register_events(calls, after) ==
    [i \in 1..(Len(after) - Len(calls)) |-> Event("register", after[Len(calls) + i].func)]

\* initialize_toolsets as it would be with the load_groups call of line 120
\* placed after line 130: the groups are assigned once the tools are registered
initialize_toolsets_loads_last(M, calls, toolsets, failAt) ==
    LET M1 == enable(M, selected(toolsets))
        r  == register_enabled_tools(M1, calls, failAt)
        M2 == load_groups(M1)
    IN  [M |-> M2, calls |-> r.calls, raised |-> r.raised,
         events |-> enable_events(selected(toolsets))
                    \o register_events(calls, r.calls)
                    \o load_groups_events(M1)]

\* toolsets.initialize_toolsets
initialize_toolsets(M, calls, toolsets, failAt) ==
    LET M1 == load_groups(M)
        M2 == enable(M1, selected(toolsets))
        r  == register_enabled_tools(M2, calls, failAt)
    IN  [M |-> M2, calls |-> r.calls, raised |-> r.raised,
         events |-> load_groups_events(M)
                    \o enable_events(selected(toolsets))
                    \o register_events(calls, r.calls)]

----------------------------------------------------------------------------
(* CommandLineProvider: the state of one call of run                       *)

\* run has not been called: no request context is set, nothing was read or
\* printed, agent.run was not called and nothing was raised
NotStarted ==
    [pc |-> "start", context |-> NoneOpt, query |-> NoneOpt, input |-> "none",
     printed |-> <<>>, outcome |-> "none", error |-> NoValue]

----------------------------------------------------------------------------
(* The calls as actions *)

\* how a call found the callable: "new" (no record), "same" (a record, in
\* the group the call names) or "other" (a record, in another group)
Found(M, func, group) ==
    IF tools_get(M.tools, func) = NoInfo THEN "new"
    ELSE IF M.heap[tools_get(M.tools, func)].group = group THEN "same"
    ELSE "other"

\* the record of a call: what was called with which callable, group and
\* registration parameters or selector, how a set_group found the callable, whether a
\* set_group or register_enabled repeats the call before it, on which host
\* call the host was set to raise, and whether the call raised
Op(name, func, group, params, M) ==
    [op |-> name, func |-> func, group |-> group, params |-> params,
     toolsets |-> NoSelector,
     found |-> IF name = "set_group" THEN Found(M, func, group) ELSE NoValue,
     again |-> /\ name \in {"set_group", "register_enabled"}
               /\ lastOp.op = name /\ lastOp.func = func /\ lastOp.group = group,
     failAt |-> 0, raised |-> FALSE, events |-> <<>>]

SetManager(M) ==
    /\ tools' = M.tools
    /\ heap' = M.heap
    /\ made' = M.made
    /\ groups' = M.groups
    /\ enabled' = M.enabled

\* the number of _ToolInfo instances constructed so far
Constructed(M) ==
    LET RECURSIVE sum(_)
        sum(S) == IF S = {} THEN 0
                  ELSE LET f == CHOOSE x \in S : TRUE IN M.made[f] + sum(S \ {f})
    IN  sum(Funcs)

Init ==
    /\ tools = NewManager.tools
    /\ heap = NewManager.heap
    /\ made = NewManager.made
    /\ groups = NewManager.groups
    /\ enabled = NewManager.enabled
    /\ hostCalls = <<>>
    /\ lastOp = [op |-> "init", func |-> NoValue, group |-> NoValue, params |-> NoParams,
                 toolsets |-> NoSelector,
                 found |-> NoValue,
                 again |-> FALSE, failAt |-> 0, raised |-> FALSE, events |-> <<>>]
    /\ ret = NoValue
    /\ cli = NotStarted

\* Callers build the registry first and activate it afterwards
\* (initialize_toolsets, toolsets.py:119-130): the calls that build it are
\* made while the host has received no call
Building == hostCalls = <<>>

\* manager.add_tool(func, group, args, kwargs)
AddTool(func, group, p) ==
    /\ Building
    /\ Constructed(Manager) < MaxRecords
    /\ SetManager(add_tool(Manager, func, group, p.args, p.kwargs))
    /\ lastOp' = Op("add_tool", func, group, p, Manager)
    /\ ret' = NoValue
    /\ UNCHANGED <<hostCalls, cli>>

\* mcp.tool(*dargs, group=group, **dkwargs)(func) on a ToolsetMCP
Tool(func, group, dargs, dkwargs) ==
    /\ Building
    /\ Constructed(Manager) < MaxRecords
    /\ SetManager(tool(Manager, hostCalls, func, group, dargs, dkwargs).M)
    /\ hostCalls' = tool(Manager, hostCalls, func, group, dargs, dkwargs).calls
    /\ ret' = tool(Manager, hostCalls, func, group, dargs, dkwargs).ret
    /\ lastOp' = Op("tool", func, group, [args |-> Some(dargs), kwargs |-> Some(dkwargs)], Manager)
    /\ UNCHANGED cli

\* manager.set_group(func, group)
SetGroup(func, group) ==
    /\ Building
    /\ tools_get(tools, func) = NoInfo => Constructed(Manager) < MaxRecords
    /\ SetManager(set_group(Manager, func, group))
    /\ lastOp' = Op("set_group", func, group, NoParams, Manager)
    /\ ret' = NoValue
    /\ UNCHANGED <<hostCalls, cli>>

\* manager.enable(*gs)
Enable(gs) ==
    /\ Building
    /\ SetManager(enable(Manager, gs))
    /\ lastOp' = Op("enable", NoValue, NoValue, NoParams, Manager)
    /\ ret' = NoValue
    /\ UNCHANGED <<hostCalls, cli>>

\* manager.get_registered_groups()
GetRegisteredGroups ==
    /\ Building
    /\ lastOp' = Op("get_registered_groups", NoValue, NoValue, NoParams, Manager)
    /\ ret' = get_registered_groups(Manager)
    /\ UNCHANGED <<tools, heap, made, groups, enabled, hostCalls, cli>>

\* manager.get_enabled_groups()
GetEnabledGroups ==
    /\ Building
    /\ lastOp' = Op("get_enabled_groups", NoValue, NoValue, NoParams, Manager)
    /\ ret' = get_enabled_groups(Manager)
    /\ UNCHANGED <<tools, heap, made, groups, enabled, hostCalls, cli>>

\* manager.get_enabled_tools()
GetEnabledTools ==
    /\ Building
    /\ lastOp' = Op("get_enabled_tools", NoValue, NoValue, NoParams, Manager)
    /\ ret' = get_enabled_tools(Manager)
    /\ UNCHANGED <<tools, heap, made, groups, enabled, hostCalls, cli>>

\* manager.register_enabled(mcp), the host raising on its failAt-th call of
\* this activation (0: on none)
RegisterEnabled(failAt) ==
    /\ Len(hostCalls) + EnabledCount(Manager) <= MaxHostCalls
    /\ failAt <= EnabledCount(Manager)
    /\ LET r == register_enabled(Manager, hostCalls, failAt) IN
        /\ hostCalls' = r.calls
        /\ lastOp' = [Op("register_enabled", NoValue, NoValue, NoParams, Manager)
                        EXCEPT !.failAt = failAt, !.raised = r.raised]
    /\ ret' = NoValue
    /\ UNCHANGED <<tools, heap, made, groups, enabled, cli>>

\* the tuples of group names a caller hands to enable
EnableArgs == UNION {[1..n -> GroupNames] : n \in 0..2}

\* The registry's calls on three callables declared without registration
\* parameters (as rds_custom.py:6 declares custom_echo)
Next ==
    \/ \E f \in Funcs, g \in GroupNames : AddTool(f, g, NoParams)
    \/ \E f \in Funcs, g \in GroupNames : SetGroup(f, g)
    \/ \E gs \in EnableArgs : Enable(gs)
    \/ GetRegisteredGroups
    \/ GetEnabledGroups
    \/ GetEnabledTools
    \/ \E failAt \in 0..Cardinality(Funcs) : RegisterEnabled(failAt)

Spec == Init /\ [][Next]_vars

\* The registry's calls on two callables declared, through add_tool or the
\* ToolsetMCP.tool decorator, with and without registration parameters
DeclaredFuncs == {"describe_db_instances", "custom_echo"}

\* the parameters a decorator is used with: @mcp.tool() and @mcp.tool("title", name="n1")
DecoratorParams ==
    {[args |-> <<>>, kwargs |-> {}], [args |-> <<"title">>, kwargs |-> {<<"name", "n1">>}]}

NextParams ==
    \/ \E f \in DeclaredFuncs, g \in GroupNames, p \in ParamsGiven : AddTool(f, g, p)
    \/ \E f \in DeclaredFuncs, g \in GroupNames, p \in DecoratorParams :
            Tool(f, g, p.args, p.kwargs)
    \/ \E f \in DeclaredFuncs, g \in GroupNames : SetGroup(f, g)
    \/ \E gs \in EnableArgs : Enable(gs)
    \/ \E failAt \in 0..Cardinality(DeclaredFuncs) : RegisterEnabled(failAt)

SpecParams == Init /\ [][NextParams]_vars

\* The calls that assign tools to groups, on three callables and the three
\* groups of tools.py
OrderGroups == {"default", "rds", "custom"}

NextOrder ==
    \/ \E f \in Funcs, g \in OrderGroups : AddTool(f, g, NoParams)
    \/ \E f \in Funcs, g \in OrderGroups : SetGroup(f, g)

SpecOrder == Init /\ [][NextOrder]_vars

----------------------------------------------------------------------------
(* Startup of the server process *)

\* initialize_toolsets(toolsets), the host raising on its failAt-th call
InitializeToolsets(toolsets, failAt) ==
    LET r == initialize_toolsets(Manager, hostCalls, toolsets, failAt) IN
    /\ lastOp.op # "initialize_toolsets"
    /\ Constructed(r.M) <= MaxRecords
    /\ failAt <= EnabledCount(r.M)
    /\ SetManager(r.M)
    /\ hostCalls' = r.calls
    /\ lastOp' = [Op("initialize_toolsets", NoValue, NoValue, NoParams, Manager)
                    EXCEPT !.toolsets = toolsets, !.failAt = failAt, !.raised = r.raised,
                           !.events = r.events]
    /\ ret' = NoValue
    /\ UNCHANGED cli

\* the selectors: None, every str of at most MaxSelLen atoms, every list of
\* at most MaxListLen names
ListNames == {"default", "rds", "custom", " rds"}
Selectors ==
    {NoSelector}
    \cup {StrSelector(s) : s \in UNION {[1..n -> Atoms] : n \in 0..MaxSelLen}}
    \cup {ListSelector(l) : l \in UNION {[1..n -> ListNames] : n \in 0..MaxListLen}}

\* Importing the server module declares its tools (@mcp.tool() on each, once,
\* in the default group), then initialize_toolsets runs once
NextStartup ==
    \/ \E f \in ServerFuncs :
            /\ lastOp.op # "initialize_toolsets"
            /\ tools_get(tools, f) = NoInfo
            /\ Tool(f, "default", <<>>, {})
    \/ \E sel \in Selectors, failAt \in 0..Cardinality(Funcs) : InitializeToolsets(sel, failAt)

SpecStartup == Init /\ [][NextStartup]_vars
----------------------------------------------------------------------------
(* The command-line read-loop: CommandLineProvider of                      *)
(* component/mydba/mydba/provider/command_line.py.  A typed line is a str, *)
(* the sequence of its atoms: a whitespace character, the slash, a letter, *)
(* or a word of letters.                                                   *)

\* the characters the lines of at most MaxLineLen atoms are made of
LineAtoms == {" ", "/", "q", "Q", "s", "i", "x"}

\* the shortcut commands typed in full, in upper case, with blanks around
\* them, and a plain query with blanks around it
CommandLines ==
    {<<"/", "exit">>, <<"/", "quit">>, <<"/", "e">>, <<"/", "EXIT">>,
     <<"/", "info">>, <<"/", "help">>, <<"/", "h">>, <<"/", "?">>,
     <<" ", "/", "Q", " ">>, <<"/", "s", " ", "x">>, <<"/", "S", " ", " ", "X", " ">>,
     <<"/", "s", "x">>, <<"/", "help", "x">>, <<" ", "x", " ", "/", "q", " ">>}

Lines == UNION {[1..n -> LineAtoms] : n \in 0..MaxLineLen} \cup CommandLines

\* str.lower()
lower(s) ==
    [i \in 1..Len(s) |->
        CASE s[i] = "Q" -> "q"
          [] s[i] = "S" -> "s"
          [] s[i] = "X" -> "x"
          [] s[i] = "EXIT" -> "exit"
          [] OTHER -> s[i]]

\* str.split(" ")
RECURSIVE split_space(_)
split_space(s) ==
    IF \E i \in 1..Len(s) : s[i] = " "
    THEN LET i == CHOOSE k \in 1..Len(s) : s[k] = " " /\ \A m \in 1..(k - 1) : s[m] # " "
         IN  <<SubSeq(s, 1, i - 1)>> \o split_space(SubSeq(s, i + 1, Len(s)))
    ELSE <<s>>

\* str.startswith(prefix), the prefix given by its characters
startswith(s, prefix) ==
    Len(s) >= Len(prefix) /\ SubSeq(s, 1, Len(prefix)) = prefix

\* the result of a shortcut handler: whether it took the line, the request
\* context it leaves and what it printed
Handled(handled, context, printed) ==
    [handled |-> handled, context |-> context, printed |-> printed]

\* CommandLineProvider._handle_quit
handle_quit(query) ==
    text(lower(strip(query))) \in {"/exit", "/quit", "/e", "/q"}

\* CommandLineProvider._handle_detail_info
handle_detail_info(query, context) ==
    IF text(lower(strip(query))) \in {"/i", "/info"}
    THEN Handled(TRUE, [context EXCEPT !.detail_info = ~@],
                 IF ~context.detail_info THEN <<"detail_on">> ELSE <<"detail_off">>)
    ELSE Handled(FALSE, context, <<>>)

\* CommandLineProvider._handle_session
handle_session(query, context) ==
    LET q == lower(strip(query)) IN
    IF startswith(q, <<"/", "s", " ">>) \/ text(q) = "/s"
    THEN LET items == split_space(q)
             named == SelectSeq(Tail(items), LAMBDA it : it # <<>>)
         IN  IF named # <<>>
             THEN Handled(TRUE, [context EXCEPT !.session = text(Head(named))],
                          <<"switch_session">>)
             ELSE Handled(TRUE, context, <<"session_usage">>)
    ELSE Handled(FALSE, context, <<>>)

\* _handle_help as it would be without the test of line 152: a slash
\* command it does not know is not taken
handle_help_known_only(query, context) ==
    IF text(lower(strip(query))) \in {"/help", "/h", "/?"}
    THEN Handled(TRUE, context, <<"welcome">>)
    ELSE Handled(FALSE, context, <<>>)

\* CommandLineProvider._handle_help
handle_help(query, context) ==
    LET q == lower(strip(query)) IN
    IF text(q) \in {"/help", "/h", "/?"}
    THEN Handled(TRUE, context, <<"welcome">>)
    ELSE IF startswith(q, <<"/">>)
    THEN Handled(TRUE, context, <<"bad_command">>)
    ELSE Handled(FALSE, context, <<>>)

\* CommandLineProvider._handle_query(query), query None or a line: what it
\* raises, or the pair (retry, query) it returns, with the request context
\* it leaves and what it printed
handle_query(query, context) ==
    IF query = NoneOpt
    THEN \* None has no strip: query.strip() of line 102 raises
         [raised |-> "AttributeError", retry |-> FALSE, query |-> NoneOpt,
          context |-> context, printed |-> <<>>]
    ELSE LET q == ValueOf(query)
             Retry(h) == [raised |-> NoValue, retry |-> TRUE, query |-> NoneOpt,
                          context |-> h.context, printed |-> h.printed]
         IN  IF strip(q) = <<>> THEN Retry(Handled(TRUE, context, <<>>))
             ELSE IF handle_quit(q)
             THEN [raised |-> NoValue, retry |-> FALSE, query |-> NoneOpt,
                   context |-> context, printed |-> <<>>]
             ELSE IF handle_detail_info(q, context).handled
             THEN Retry(handle_detail_info(q, context))
             ELSE IF handle_session(q, context).handled
             THEN Retry(handle_session(q, context))
             ELSE IF handle_help(q, context).handled
             THEN Retry(handle_help(q, context))
             ELSE [raised |-> NoValue, retry |-> FALSE, query |-> Some(strip(q)),
                   context |-> context, printed |-> <<>>]

\* what stream.ainput gives: a line, or it raises KeyboardInterrupt or
\* another exception (EOFError at the end of the input)
Inputs ==
    {[kind |-> "line", val |-> l] : l \in Lines}
    \cup {[kind |-> "KeyboardInterrupt", val |-> <<>>], [kind |-> "EOFError", val |-> <<>>]}

\* run up to the first prompt: the welcome message and the request context
\* of _get_context, with the detail_info its caller's settings give it
CliRun(detail_info) ==
    /\ cli.pc = "start"
    /\ cli' = [cli EXCEPT !.pc = "prompt",
                          !.context = Some([detail_info |-> detail_info, session |-> "default"]),
                          !.printed = <<"welcome">>]
    /\ UNCHANGED <<tools, heap, made, groups, enabled, hostCalls, lastOp, ret>>

\* _get_query, lines 82-89: the prompt and the read of one input
CliGetInput(inp) ==
    /\ cli.pc = "prompt"
    /\ cli' = [cli EXCEPT !.pc = "handle",
                          !.query = IF inp.kind = "line" THEN Some(inp.val) ELSE NoneOpt,
                          !.input = inp.kind,
                          !.printed = IF inp.kind = "EOFError"
                                      THEN <<"prompt", "">> ELSE <<"prompt">>,
                          !.outcome = "none"]
    /\ UNCHANGED <<tools, heap, made, groups, enabled, hostCalls, lastOp, ret>>

\* _get_query, lines 90-92, and what run does with a query that is None
\* (lines 28-30): an exception leaves run through the `async with`, whose
\* _get_context has no try/finally around its yield, so that reset_context
\* is called when the block ends normally and not when it raises
CliHandleQuery ==
    /\ cli.pc = "handle"
    /\ LET r == handle_query(cli.query, ValueOf(cli.context)) IN
       cli' = IF r.raised # NoValue
              THEN [cli EXCEPT !.pc = "raised", !.error = r.raised, !.query = NoneOpt,
                               !.printed = r.printed]
              ELSE IF r.retry
              THEN [cli EXCEPT !.pc = "prompt", !.context = Some(r.context),
                               !.query = NoneOpt, !.printed = r.printed]
              ELSE IF r.query = NoneOpt
              THEN [cli EXCEPT !.pc = "returned", !.context = NoneOpt, !.query = NoneOpt,
                               !.printed = r.printed \o <<"exit">>]
              ELSE [cli EXCEPT !.pc = "agent", !.context = Some(r.context),
                               !.query = r.query, !.printed = r.printed]
    /\ UNCHANGED <<tools, heap, made, groups, enabled, hostCalls, lastOp, ret>>

\* run, lines 31-45, for the query of cli.query: the main agent is made
\* (_get_main_agent raises when the configuration names none), agent.run is
\* called with the query and returns a content or raises RetryError or
\* another Exception, and the result or the error is printed
CliAgent(main_agent, result) ==
    /\ cli.pc = "agent"
    /\ cli' = IF main_agent = "none"
              THEN [cli EXCEPT !.pc = "raised", !.error = "Exception", !.query = NoneOpt,
                               !.printed = <<>>]
              ELSE [cli EXCEPT !.pc = "prompt",
                               !.query = NoneOpt,
                               !.outcome = result,
                               !.printed = IF result # "content" THEN <<"error">>
                                           ELSE IF ~ValueOf(cli.context).detail_info
                                           THEN <<"result">> ELSE <<>>]
    /\ UNCHANGED <<tools, heap, made, groups, enabled, hostCalls, lastOp, ret>>

NextCli ==
    \/ \E d \in BOOLEAN : CliRun(d)
    \/ \E inp \in Inputs : CliGetInput(inp)
    \/ CliHandleQuery
    \/ \E m \in {"main", "none"}, r \in {"content", "RetryError", "Exception"} : CliAgent(m, r)

SpecCli == Init /\ [][NextCli]_vars

----------------------------------------------------------------------------
(* Properties *)

\* the manager after a step
ManagerNext ==
    [tools |-> tools', heap |-> heap', made |-> made', groups |-> groups', enabled |-> enabled']

\* the callables the registry has a record for
Known == {tools[i].key : i \in 1..Len(tools)}

\* the record the tool map holds for a known callable
RecordOf(f) == heap[tools_get(tools, f)]

\* the places <<group, index>> of the group lists G that hold an entry for f
PlacesIn(H, G, f) ==
    UNION {{<<g, i>> : i \in {k \in 1..Len(G[g]) : H[G[g][k]].func = f}} : g \in DOMAIN G}

Places(f) == PlacesIn(heap, groups, f)

\* the parameters add_tool stores for the ones it is given
Stored(p) ==
    [args   |-> IF p.args = NoneOpt THEN <<>> ELSE ValueOf(p.args),
     kwargs |-> IF p.kwargs = NoneOpt THEN {} ELSE ValueOf(p.kwargs)]

\* the registration parameters of a record
ParamsOf(rec) == [args |-> rec.args, kwargs |-> rec.kwargs]

\* the step is a call that declares a callable: add_tool or the decorator
Declares == lastOp'.op \in {"add_tool", "tool"}

\* C1: every callable that was ever added has a record in the tool map and
\* an entry in exactly one group list, exactly once, that entry is the tool
\* map's record and the list is the one of the record's group field; a
\* callable never added has no entry anywhere
C1_OneGroupPerTool ==
    \A f \in Funcs :
        IF made[f] > 0
        THEN /\ f \in Known
             /\ Cardinality({i \in 1..Len(tools) : tools[i].key = f}) = 1
             /\ \E g \in DOMAIN groups : \E i \in 1..Len(groups[g]) :
                    /\ Places(f) = {<<g, i>>}
                    /\ groups[g][i] = tools_get(tools, f)
                    /\ RecordOf(f).group = g
        ELSE f \notin Known /\ Places(f) = {}

\* a callable that was re-added has just been moved to another group, next
\* to other tools
C1_Witness ==
    /\ lastOp.op = "set_group" /\ lastOp.found = "other"
    /\ made[lastOp.func] >= 2
    /\ Len(groups[lastOp.group]) >= 2
    /\ Len(tools) = Cardinality(Funcs)

\* the calls the host received in the step
NewCalls == SubSeq(hostCalls', Len(hostCalls) + 1, Len(hostCalls'))

\* the items of the tool map whose record's group is enabled, in the map's order
EnabledItems == SelectSeq(tools, LAMBDA item : heap[item.info].group \in enabled)

\* C2: an activation in which the host does not raise makes exactly one
\* host call for each callable whose record's group is enabled at that
\* moment and none for any other callable
C2_ActivationRegistersEnabled ==
    [][(lastOp'.op = "register_enabled" /\ lastOp'.failAt = 0) =>
        /\ ~lastOp'.raised
        /\ \A f \in Funcs :
            Cardinality({i \in 1..Len(NewCalls) : NewCalls[i].func = f})
                = IF f \in Known /\ RecordOf(f).group \in enabled THEN 1 ELSE 0
        /\ \A i \in 1..Len(NewCalls) : NewCalls[i].ok]_vars

\* an activation has registered some tool and has not registered a tool
\* that was declared again after its first declaration
C2_Witness ==
    /\ lastOp.op = "register_enabled" /\ lastOp.failAt = 0
    /\ hostCalls # <<>>
    /\ \E f \in Known : made[f] >= 2 /\ \A i \in 1..Len(hostCalls) : hostCalls[i].func # f

\* C3: when the host raises on the k-th host call of an activation, the
\* host has received the calls for the first k enabled tools in iteration
\* order and no other, the first k-1 stand, the failure reaches the caller,
\* and the tool map, the group lists and the enabled set are untouched
C3_ActivationAbortsOnFailure ==
    [][(lastOp'.op = "register_enabled" /\ lastOp'.failAt > 0) =>
        /\ lastOp'.raised
        /\ hostCalls' = hostCalls \o
              [i \in 1..lastOp'.failAt |->
                  HostCall(heap[EnabledItems[i].info], i # lastOp'.failAt)]
        /\ ManagerNext = Manager]_vars

\* the host raised on the second of three enabled tools
C3_Witness ==
    /\ lastOp.op = "register_enabled" /\ lastOp.failAt = 2 /\ lastOp.raised
    /\ Len(EnabledItems) = 3
    /\ Len(hostCalls) = 2 /\ hostCalls[1].ok /\ ~hostCalls[2].ok
C5_ParamsSetOnce ==
    [][\A f \in Known : ParamsOf(heap'[tools_get(tools', f)]) = ParamsOf(RecordOf(f))]_vars

\* C5 as the code has it: every add_tool (the first and every re-add, made
\* directly, by the decorator or by set_group for an unknown callable)
\* sets the callable's parameters to the ones it is given, () and {} for
\* the ones left out; no other call changes the parameters of any
\* callable; the host is handed the stored parameters
C5_ParamsSetByEachAdd ==
    [][/\ \A f \in Funcs :
            IF Declares /\ lastOp'.func = f
            THEN ParamsOf(heap'[tools_get(tools', f)]) = Stored(lastOp'.params)
            ELSE IF lastOp'.op = "set_group" /\ lastOp'.func = f /\ f \notin Known
            THEN ParamsOf(heap'[tools_get(tools', f)]) = Stored(NoParams)
            ELSE /\ tools_get(tools', f) = tools_get(tools, f)
                 /\ f \in Known => ParamsOf(heap'[tools_get(tools', f)]) = ParamsOf(RecordOf(f))
       /\ \A i \in 1..Len(NewCalls) :
            /\ NewCalls[i].func \in Known
            /\ ParamsOf(NewCalls[i]) = ParamsOf(RecordOf(NewCalls[i].func))]_vars

\* the host has been handed the parameters of a re-add, for a tool that was
\* moved after it
C5_Witness ==
    /\ lastOp.op = "register_enabled"
    /\ \E i \in 1..Len(hostCalls) :
            /\ hostCalls[i].args = <<"title">>
            /\ made[hostCalls[i].func] >= 2
    /\ \E g \in DOMAIN groups : groups[g] = <<>>

\* C6: a set_group that repeats the set_group before it, and a set_group
\* to the group the callable is in, change nothing in the tool map, the
\* records, the group lists (contents and order) and the enabled set
C6_SetGroupIdempotent ==
    [][(lastOp'.op = "set_group" /\ (lastOp'.again \/ lastOp'.found = "same")) =>
        ManagerNext = Manager]_vars

\* set_group has just been called twice in a row with the same arguments,
\* the first call having moved a tool out of a list that holds other tools
C6_Witness ==
    /\ lastOp.op = "set_group" /\ lastOp.again
    /\ \E g \in DOMAIN groups : g # lastOp.group /\ groups[g] # <<>>
    /\ Len(groups[lastOp.group]) >= 2

\* C7: set_group for a callable without a record does not fail and leaves
\* the registry as add_tool(func, group=group) leaves it: a new record with
\* the parameters () and {}, last in the group's list
C7_SetGroupUnknownIsAdd ==
    [][(lastOp'.op = "set_group" /\ lastOp'.func \notin Known) =>
        /\ ~lastOp'.raised
        /\ ManagerNext = add_tool(Manager, lastOp'.func, lastOp'.group, NoneOpt, NoneOpt)
        /\ heap'[tools_get(tools', lastOp'.func)] =
              [func |-> lastOp'.func, args |-> <<>>, kwargs |-> {}, group |-> lastOp'.group]
        /\ groups'[lastOp'.group][Len(groups'[lastOp'.group])] = tools_get(tools', lastOp'.func)]_vars

\* set_group has just added an unknown callable to a group other than the
\* default one, which already held a tool
C7_Witness ==
    /\ lastOp.op = "set_group" /\ lastOp.found = "new"
    /\ lastOp.group # "default"
    /\ Len(groups[lastOp.group]) >= 2

\* what C8 says of a result r of get_enabled_tools
EnabledToolsView(r) ==
    /\ DOMAIN r = enabled
    /\ \A g \in enabled :
        /\ r[g] = IF g \in DOMAIN groups
                  THEN [i \in 1..Len(groups[g]) |-> heap[groups[g][i]].func]
                  ELSE <<>>
        /\ \A i \in 1..Len(r[g]) : r[g][i] \in Known /\ RecordOf(r[g][i]).group = g
    /\ \A f \in Known : RecordOf(f).group \in enabled =>
            \E i \in 1..Len(r[RecordOf(f).group]) : r[RecordOf(f).group][i] = f

\* C8: in every state get_enabled_tools maps exactly the enabled groups,
\* each to its list of callables in list order (empty for an enabled group
\* without tools), every callable listed is one whose current group is that
\* enabled group, and every callable in an enabled group is listed
C8_EnabledToolsView ==
    /\ EnabledToolsView(get_enabled_tools(Manager))
    /\ lastOp.op = "get_enabled_tools" => EnabledToolsView(ret)

\* get_enabled_tools has returned an enabled group without tools and an
\* enabled group with two tools, a third tool having been declared again
C8_Witness ==
    /\ lastOp.op = "get_enabled_tools"
    /\ \E g \in enabled : ret[g] = <<>>
    /\ \E g \in enabled : Len(ret[g]) >= 2
    /\ \E f \in Known : made[f] >= 2
\* the tokens of a str: the spans a..b without a comma that begin and end
\* with a character that is not whitespace and have nothing but whitespace
\* between them and the commas (or ends of the str) around them
TokenSpans(s) ==
    {sp \in (1..Len(s)) \X (1..Len(s)) :
        /\ sp[1] <= sp[2]
        /\ \A k \in sp[1]..sp[2] : s[k] # Comma
        /\ s[sp[1]] \notin Whitespace /\ s[sp[2]] \notin Whitespace
        /\ \A m \in 1..(sp[1] - 1) :
              (\A k \in m..(sp[1] - 1) : s[k] # Comma) => s[m] \in Whitespace
        /\ \A m \in (sp[2] + 1)..Len(s) :
              (\A k \in (sp[2] + 1)..m : s[k] # Comma) => s[m] \in Whitespace}

\* the groups C9 says a selector enables
SelectedGroups(sel) ==
    IF sel.kind = "none" THEN {"default"}
    ELSE IF sel.kind = "str"
         THEN IF TokenSpans(sel.val) = {} THEN {"default"}
              ELSE {text(SubSeq(sel.val, sp[1], sp[2])) : sp \in TokenSpans(sel.val)}
    ELSE IF sel.val = <<>> THEN {"default"}
         ELSE {sel.val[i] : i \in 1..Len(sel.val)}

\* C9: initialize_toolsets started with nothing enabled leaves enabled
\* exactly "default" for no selector, the trimmed non-empty comma-separated
\* tokens of a str (or "default" when there is none), the elements of a
\* list (or "default" when it is empty); nothing but the host raises
C9_SelectorEnables ==
    [][(lastOp'.op = "initialize_toolsets" /\ enabled = {}) =>
        /\ enabled' = SelectedGroups(lastOp'.toolsets)
        /\ lastOp'.raised => lastOp'.failAt > 0]_vars

\* initialize_toolsets has run to its end on the str "rds,,custom,"
C9_Witness ==
    /\ lastOp.op = "initialize_toolsets"
    /\ lastOp.toolsets = StrSelector(<<"rds", ",", ",", "custom", ",">>)
    /\ enabled = {"rds", "custom"}
    /\ ~lastOp.raised
    /\ Len(hostCalls) = 3

\* C10: declaring a tool with the decorator, add_tool, set_group and enable
\* make no host call, the host's calls change in register_enabled alone,
\* and the decorator returns the callable it was given
C10_NoRegistrationBeforeActivation ==
    [][/\ lastOp'.op \in {"tool", "add_tool", "set_group", "enable"} => hostCalls' = hostCalls
       /\ hostCalls' # hostCalls => lastOp'.op = "register_enabled"
       /\ lastOp'.op = "tool" => ret' = lastOp'.func]_vars

\* the decorator has declared a tool in an enabled group, with parameters,
\* and the host has received nothing
C10_Witness ==
    /\ lastOp.op = "tool"
    /\ lastOp.group \in enabled
    /\ lastOp.params.args = Some(<<"title">>)
    /\ ret = lastOp.func
    /\ hostCalls = <<>>

\* the place of a call in the order of initialize_toolsets
StepRank(e) == IF e.ev = "set_group" THEN 1 ELSE IF e.ev = "enable" THEN 2 ELSE 3

\* the callables load_groups moves out of "default"
MovedByLoader == {"describe_db_instances", "describe_db_instance_attribute", "custom_echo"}

\* C11: in a run of initialize_toolsets every set_group of load_groups is
\* made before the first enable and every enable before the first host
\* registration; load_groups makes a set_group for custom_echo and for each
\* of the server's tools it names, every enabled name is enabled, the tools
\* registered are the ones whose group after load_groups is enabled, and a
\* run that enables only "default" registers no tool load_groups moved
C11_StartupOrder ==
    [][lastOp'.op = "initialize_toolsets" =>
        LET ev == lastOp'.events IN
        /\ \A i, j \in 1..Len(ev) : i < j => StepRank(ev[i]) <= StepRank(ev[j])
        /\ \A f \in MovedByLoader :
              (f \in Known \/ f = "custom_echo") <=> Event("set_group", f) \in {ev[i] : i \in 1..Len(ev)}
        /\ {ev[i].name : i \in {k \in 1..Len(ev) : ev[k].ev = "enable"}} = enabled' \ enabled
        /\ \A i \in 1..Len(NewCalls) :
              /\ Event("register", NewCalls[i].func) \in {ev[k] : k \in 1..Len(ev)}
              /\ heap'[tools_get(tools', NewCalls[i].func)].group \in enabled'
        /\ enabled' = {"default"} =>
              \A i \in 1..Len(NewCalls) : NewCalls[i].func \notin MovedByLoader]_vars

\* initialize_toolsets has run with only "default" enabled on a server
\* that declared both its tools: the three tools were moved and none was
\* registered
C11_Witness ==
    /\ lastOp.op = "initialize_toolsets"
    /\ enabled = {"default"}
    /\ Len(tools) = 3
    /\ Len(lastOp.events) = 4
    /\ lastOp.events[4] = Event("enable", "default")
    /\ hostCalls = <<>>
    /\ \A f \in Known : RecordOf(f).group # "default"

\* the group a step assigns a tool to, if it assigns one
AssignedInStep ==
    IF lastOp'.op \in {"add_tool", "tool", "set_group"} THEN {lastOp'.group} ELSE {}

\* C12: get_registered_groups returns nothing before the first assignment
\* and from then on the names returned before together with the group of
\* each add_tool, decorator or set_group call made: a name once returned
\* stays, also when its list has become empty, and enable and the queries
\* add no name, change no group list and do not raise
C12_RegisteredGroupsEverAssigned ==
    /\ [](lastOp.op = "init" => get_registered_groups(Manager) = {})
    /\ [][/\ get_registered_groups(ManagerNext) = get_registered_groups(Manager) \cup AssignedInStep
          /\ lastOp'.op = "get_registered_groups" =>
                ret' = get_registered_groups(Manager) /\ ret' = DOMAIN groups
          /\ lastOp'.op \in {"enable", "get_registered_groups", "get_enabled_groups",
                              "get_enabled_tools"} =>
                groups' = groups /\ tools' = tools /\ ~lastOp'.raised
          /\ lastOp'.op = "get_enabled_tools" =>
                \A g \in enabled \ DOMAIN groups : ret'[g] = <<>>]_vars

\* get_registered_groups has returned a group whose last tool has moved to
\* another group, a group without tools being enabled
C12_Witness ==
    /\ lastOp.op = "get_registered_groups"
    /\ \E g \in ret : groups[g] = <<>> /\ g \in enabled
    /\ \E g \in ret : Len(groups[g]) >= 2

\* a list without its k-th element
RemoveAt(l, k) == SubSeq(l, 1, k - 1) \o SubSeq(l, k + 1, Len(l))

\* C13: a set_group that moves f from its group h to another group g makes
\* f's record the last element of g's list after the elements g's list had,
\* in their order, leaves h's list as it was without f's record, the others
\* in their order, and leaves the list of every other group and the tool
\* map as they were
C13_MoveAppends ==
    [][(lastOp'.op = "set_group" /\ lastOp'.found = "other") =>
        LET f == lastOp'.func
            g == lastOp'.group
            h == RecordOf(f).group
            info == tools_get(tools, f)
        IN  /\ g # h
            /\ DOMAIN groups' = DOMAIN groups \cup {g}
            /\ groups'[g] = (IF g \in DOMAIN groups THEN groups[g] ELSE <<>>) \o <<info>>
            /\ \E k \in 1..Len(groups[h]) :
                    groups[h][k] = info /\ groups'[h] = RemoveAt(groups[h], k)
            /\ \A x \in DOMAIN groups \ {g, h} : groups'[x] = groups[x]
            /\ heap'[info].group = g
            /\ tools' = tools]_vars

\* a tool has just been moved to a list that held another tool, a tool
\* being left in another list and some tool having been declared again
C13_Witness ==
    /\ lastOp.op = "set_group" /\ lastOp.found = "other"
    /\ Len(groups[lastOp.group]) >= 2
    /\ \E h \in DOMAIN groups : h # lastOp.group /\ groups[h] # <<>>
    /\ \E f \in Known : made[f] >= 2
    /\ Len(tools) = 3

\* the place of a callable's key in the tool map T
KeyIndex(T, f) == CHOOSE i \in 1..Len(T) : T[i].key = f

\* the place of the host call for f among the calls l
CallIndex(l, f) == CHOOSE i \in 1..Len(l) : l[i].func = f

\* C14 as claimed: the host receives the calls for the tools of an enabled
\* group in the order of the group's list
C14_GroupListOrder ==
    [][(lastOp'.op = "register_enabled" /\ lastOp'.failAt = 0) =>
        \A g \in enabled \cap DOMAIN groups : \A i, j \in 1..Len(groups[g]) :
            i < j => CallIndex(NewCalls, heap[groups[g][i]].func)
                        < CallIndex(NewCalls, heap[groups[g][j]].func)]_vars

\* C14 as the code has it: the host receives the calls for two tools of
\* the same enabled group in the order of their keys in the tool map, the
\* order in which they were first added; a set_group that moves a tool and
\* a re-add put the tool's record last in its group's list and leave the
\* order of the keys of the tool map as it was, so that the list's order
\* and the registration order part
C14_SameGroupMapOrder ==
    [][/\ (lastOp'.op = "register_enabled" /\ lastOp'.failAt = 0) =>
            \A i, j \in 1..Len(NewCalls) :
                (i < j /\ RecordOf(NewCalls[i].func).group = RecordOf(NewCalls[j].func).group)
                    => KeyIndex(tools, NewCalls[i].func) < KeyIndex(tools, NewCalls[j].func)
       /\ (/\ lastOp'.op \in {"add_tool", "tool", "set_group"}
           /\ lastOp'.func \in Known
           /\ lastOp'.op = "set_group" => lastOp'.found = "other") =>
            /\ \A f \in Known : KeyIndex(tools', f) = KeyIndex(tools, f)
            /\ Len(tools') = Len(tools)
            /\ groups'[lastOp'.group][Len(groups'[lastOp'.group])]
                    = tools_get(tools', lastOp'.func)]_vars

\* the host has been handed the two tools of an enabled group in the
\* reverse of the order of the group's list
C14_Witness ==
    /\ lastOp.op = "register_enabled" /\ lastOp.failAt = 0
    /\ \E g \in enabled \cap DOMAIN groups : \E i, j \in 1..Len(groups[g]) :
            /\ i < j
            /\ \E a, b \in 1..Len(hostCalls) :
                    /\ b < a
                    /\ hostCalls[a].func = heap[groups[g][i]].func
                    /\ hostCalls[b].func = heap[groups[g][j]].func

\* the number of host calls for f among the calls l
CallCount(l, f) == Cardinality({i \in 1..Len(l) : l[i].func = f})

\* C15: an activation in which the host does not raise hands the host one
\* more call for every tool whose group is enabled, whatever the host has
\* received before, and changes nothing in the registry; activations that
\* follow each other on an unchanged registry without a host failure leave
\* the host with the calls of one activation repeated, n calls for each
\* enabled tool after n activations
C15_NoDedupAcrossActivations ==
    [][(lastOp'.op = "register_enabled" /\ lastOp'.failAt = 0) =>
        LET k == Len(EnabledItems) IN
        /\ ManagerNext = Manager
        /\ NewCalls = [i \in 1..k |-> HostCall(heap[EnabledItems[i].info], TRUE)]
        /\ \A f \in Funcs :
              CallCount(hostCalls', f) =
                  CallCount(hostCalls, f)
                  + (IF f \in Known /\ RecordOf(f).group \in enabled THEN 1 ELSE 0)
        /\ (k > 0 /\ \A i \in 1..Len(hostCalls) : hostCalls[i].ok) =>
              /\ Len(hostCalls') % k = 0
              /\ \A i \in 1..Len(hostCalls') :
                    hostCalls'[i] = HostCall(heap[EnabledItems[((i - 1) % k) + 1].info], TRUE)
              /\ \A f \in Known : RecordOf(f).group \in enabled =>
                    CallCount(hostCalls', f) = Len(hostCalls') \div k]_vars

\* register_enabled has been called twice in a row without a host failure:
\* the host has received each of the two enabled tools twice and the tool
\* of the group that is not enabled never
C15_Witness ==
    /\ lastOp.op = "register_enabled" /\ lastOp.again /\ lastOp.failAt = 0
    /\ Len(EnabledItems) = 2 /\ Len(tools) = 3
    /\ Len(hostCalls) = 4
    /\ \A i \in 1..Len(hostCalls) : hostCalls[i].ok
    /\ \A i \in 1..2 : CallCount(hostCalls, EnabledItems[i].key) = 2

\* the keys of the tool map T in its order
KeysOf(T) == [i \in 1..Len(T) |-> T[i].key]

\* C16: the keys of the tool map are the callables in the order in which
\* they were first added: a call that adds an unknown callable puts it
\* last, and no other call (a re-add, a set_group of a known callable, an
\* enable, a query, an activation) changes the keys or their order; the
\* host calls of every activation, also of one the host ends by raising,
\* are made in that order
C16_FirstAddedOrder ==
    [][/\ KeysOf(tools') =
            IF lastOp'.op \in {"add_tool", "tool", "set_group"} /\ lastOp'.func \notin Known
            THEN Append(KeysOf(tools), lastOp'.func)
            ELSE KeysOf(tools)
       /\ lastOp'.op = "register_enabled" =>
            \A i, j \in 1..Len(NewCalls) :
                i < j => KeyIndex(tools, NewCalls[i].func) < KeyIndex(tools, NewCalls[j].func)]_vars

\* the host has been handed first the tool that was added first, which was
\* declared again and stands last in its group's list, and then the tool
\* that stands first in that list
C16_Witness ==
    /\ lastOp.op = "register_enabled"
    /\ Len(hostCalls) >= 2
    /\ hostCalls[1].func = tools[1].key
    /\ made[hostCalls[1].func] >= 2
    /\ LET l == groups[RecordOf(hostCalls[1].func).group] IN
            /\ Len(l) >= 2
            /\ l[Len(l)] = tools_get(tools, hostCalls[1].func)
            /\ l[1] = tools_get(tools, hostCalls[2].func)

\* the step ends the read-loop: run returns or an exception leaves it
LoopEnds == cli.pc \notin {"returned", "raised"} /\ cli'.pc \in {"returned", "raised"}

\* C17 as claimed: when stream.ainput raises, _get_query returns None and
\* run prints the exit message and returns, the request context reset and
\* no error leaving run
C17_InterruptedInputExits ==
    [][(cli.pc = "handle" /\ cli.input \in {"KeyboardInterrupt", "EOFError"}) =>
        /\ cli'.pc = "returned"
        /\ \E i \in 1..Len(cli'.printed) : cli'.printed[i] = "exit"
        /\ cli'.context = NoneOpt
        /\ cli'.error = NoValue]_vars

\* a line without the whitespace at its ends: from its first to its last
\* character that is not whitespace
Trimmed(l) ==
    LET inked == {i \in 1..Len(l) : l[i] \notin Whitespace} IN
    IF inked = {} THEN <<>>
    ELSE SubSeq(l, CHOOSE i \in inked : \A j \in inked : i <= j,
                   CHOOSE i \in inked : \A j \in inked : j <= i)

\* the line is a quit command: /exit, /quit, /e or /q in any case
IsQuit(l) == text(lower(Trimmed(l))) \in {"/exit", "/quit", "/e", "/q"}

\* C18: a line that was read goes on to agent.run exactly when its trimmed
\* form is not empty and does not begin with "/", and then as its trimmed
\* form; a blank line and a line beginning with "/" end the loop with the
\* exit message when the line is a quit command and lead to the next
\* prompt otherwise; agent.run is called with such a query only
C18_OnlyQueriesReachAgent ==
    [][/\ (cli.pc = "handle" /\ cli.query # NoneOpt) =>
            LET t == Trimmed(ValueOf(cli.query)) IN
            /\ cli'.pc = "agent" <=> (t # <<>> /\ t[1] # "/")
            /\ cli'.pc = "agent" => cli'.query = Some(t)
            /\ (t = <<>> \/ t[1] = "/") =>
                    IF IsQuit(ValueOf(cli.query))
                    THEN cli'.pc = "returned" /\ cli'.printed = <<"exit">>
                    ELSE cli'.pc = "prompt"
       /\ cli'.outcome # "none" =>
            /\ cli.pc = "agent" /\ cli.query # NoneOpt
            /\ ValueOf(cli.query) # <<>>
            /\ Head(ValueOf(cli.query)) \notin Whitespace \cup {"/"}]_vars

\* a slash command that is no shortcut has been answered with the list of
\* the shortcuts, and the loop prompts again
C18_Witness ==
    /\ cli.pc = "prompt"
    /\ cli.input = "line"
    /\ cli.printed = <<"bad_command">>
    /\ cli.outcome = "none"

\* C19 as claimed: when agent.run raises RetryError or another Exception
\* the error is printed, no result is sent and the loop prompts again; the
\* loop ends only when a quit command makes _get_query return None
C19_AgentFailureKeepsLoop ==
    [][/\ (cli.pc = "agent" /\ cli'.outcome \in {"RetryError", "Exception"}) =>
            cli'.pc = "prompt" /\ cli'.printed = <<"error">>
       /\ LoopEnds =>
            /\ cli.pc = "handle"
            /\ cli'.pc = "returned"
            /\ cli'.error = NoValue]_vars
====
